---- MODULE Spec2Model ----
(***************************************************************************)
(* Articles backend: router -> validation -> controller -> service ->      *)
(* repository -> articles table, plus the AI draft provider.               *)
(***************************************************************************)
EXTENDS Integers, Sequences, FiniteSets, TLC

VARIABLES
    rows,        \* the articles table: id -> row (snake_case columns)
    seq,         \* last value handed out by the id sequence of the table
    now,         \* the database clock
    configured,  \* AiGenerateArticleRepository has a client and an endpoint
    last,        \* the last completed request and its outcome
    made,        \* id -> what createArticle returned, until the id is written again
    deleted,     \* ids a DELETE statement has removed
    inflight     \* a listing between issuing its two statements and settling

vars == <<rows, seq, now, configured, last, made, deleted, inflight>>

----------------------------------------------------------------------------
(* Bounds *)

MaxId == 2        \* number of INSERTs in a behaviour
MaxClock == 1     \* the clock runs over 0..MaxClock

(* Program constants *)

DEFAULT_PAGE == 1
DEFAULT_PAGE_SIZE == 10
MAX_PAGE_SIZE == 50

(* JavaScript's undefined and null *)
Undef == "<undefined>"
Null == "<null>"

Min(a, b) == IF a < b THEN a ELSE b

----------------------------------------------------------------------------
(* Raw request values.  A query or path value arrives as text; a raw number *)
(* is tagged with what Number(text) makes of it.                            *)

RawInt(n) == [k |-> "int", n |-> n]
RawFrac == [k |-> "frac", n |-> 0]      \* e.g. "1.5"
RawText == [k |-> "text", n |-> 0]      \* e.g. "abc": Number gives NaN
RawUndef == [k |-> "undef", n |-> 0]    \* the key is absent
RawDate(t) == [k |-> "date", n |-> t]   \* text new Date() can read

(* z.coerce.number().int(): the raw value is an integer number *)
IsInt(raw) == raw.k = "int"

(* z.coerce.date(): new Date(text) is a valid date *)
IsDate(raw) == raw.k = "date"

----------------------------------------------------------------------------
(* Validation layer: each schema yields the set of paths of its issues and, *)
(* when that set is empty, the parsed value.                                *)

(* a schema that lets every id through *)
articleIdIssuesOff(params) == {}

articleIdIssues(params) ==
    IF IsInt(params.id) /\ params.id.n > 0 THEN {} ELSE {"id"}

articleIdSchema(params) == [id |-> params.id.n]

(* z.coerce.number().int().min(1).default(d): NaN is an invalid type and    *)
(* aborts the parse of the object; a fraction or a number below 1 is an    *)
(* issue that leaves the parse running.                                     *)
NumberAborts(raw) == raw.k = "text"

NumberIssue(raw, path) ==
    IF raw.k = "undef" THEN {}
    ELSE IF IsInt(raw) /\ raw.n >= 1 THEN {} ELSE {path}

NumberOrDefault(raw, dflt) == IF raw.k = "undef" THEN dflt ELSE raw.n

(* z.enum(['asc', 'desc']).default('desc') *)
SortIssue(raw) == IF raw \in {Undef, "asc", "desc"} THEN {} ELSE {"sortDirection"}

(* z.coerce.date().optional() *)
DateIssue(raw, path) == IF raw.k = "undef" \/ IsDate(raw) THEN {} ELSE {path}

(* a test for a missing date that never fires *)
AbsentNever(d) == FALSE

(* an optional date after parsing: a Date, or undefined *)
Absent(d) == d.k = "undef"

listArticlesSchema(q) ==
    [page          |-> NumberOrDefault(q.page, DEFAULT_PAGE),
     pageSize      |-> NumberOrDefault(q.pageSize, DEFAULT_PAGE_SIZE),
     sortDirection |-> IF q.sortDirection = Undef THEN "desc" ELSE q.sortDirection,
     from          |-> q.from,
     to            |-> q.to]

(* the refinement of listArticlesSchema: from <= to when both are present *)
listArticlesRefine(data) ==
    IF ~Absent(data.from) /\ ~Absent(data.to) THEN data.from.n <= data.to.n ELSE TRUE

(* the refinement runs unless a field aborted the parse of the object *)
listArticlesIssues(q) ==
    LET fieldIssues == NumberIssue(q.page, "page") \cup NumberIssue(q.pageSize, "pageSize")
                       \cup SortIssue(q.sortDirection)
                       \cup DateIssue(q.from, "from") \cup DateIssue(q.to, "to")
        aborted == NumberAborts(q.page) \/ NumberAborts(q.pageSize)
                   \/ SortIssue(q.sortDirection) # {}
                   \/ DateIssue(q.from, "from") # {} \/ DateIssue(q.to, "to") # {}
    IN  IF aborted THEN fieldIssues
        ELSE IF listArticlesRefine(listArticlesSchema(q)) THEN fieldIssues
        ELSE fieldIssues \cup {"from"}

(* z.string().min(1) *)
NonEmptyString(v) == v \notin {Undef, Null} /\ v # ""

createArticleIssues(b) ==
    (IF NonEmptyString(b.title) THEN {} ELSE {"title"})
    \cup (IF NonEmptyString(b.content) THEN {} ELSE {"content"})

createArticleSchema(b) == b

updateArticleIssues(b) ==
    (IF b.title = Undef \/ NonEmptyString(b.title) THEN {} ELSE {"title"})
    \cup (IF b.content = Undef \/ NonEmptyString(b.content) THEN {} ELSE {"content"})

updateArticleSchema(b) == b

(* one element of messages: the role selects the schema; every schema is   *)
(* strict, so a key it does not name is an issue.                           *)
MessageOk(m) ==
    /\ ~m.extra
    /\ \/ m.role \in {"system", "user"} /\ m.content \notin {Undef, Null}
       \/ m.role = "assistant"

generateArticleIssues(b) ==
    (IF NonEmptyString(b.model) THEN {} ELSE {"model"})
    \cup (IF \A i \in DOMAIN b.messages : MessageOk(b.messages[i]) THEN {} ELSE {"messages"})

generateArticleSchema(b) == b

----------------------------------------------------------------------------
(* The articles table and its statements *)

(* Columns the INSERT does not name: the id comes from the table's          *)
(* sequence, created_at and updated_at default to the current time.         *)
ColumnDefaults(s, t) == [id |-> s + 1, created_at |-> t, updated_at |-> t]

(* an INSERT that gives every row the first id *)
InsertRowFirstId(s, t, params) ==
    [id |-> 1, title |-> params[1], content |-> params[2], photo_url |-> params[3],
     created_at |-> t, updated_at |-> t]

(* INSERT INTO articles (title, content, photo_url) VALUES ($1, $2, $3) *)
InsertRow(s, t, params) ==
    LET d == ColumnDefaults(s, t)
    IN  [id |-> d.id, title |-> params[1], content |-> params[2],
         photo_url |-> params[3],
         created_at |-> d.created_at, updated_at |-> d.updated_at]

(* UPDATE articles SET <assignments> WHERE id = $n: every assignment        *)
(* "column = $p" gives the column the value of parameter p; columns the     *)
(* SET clause does not name keep their value.                               *)
RECURSIVE SetColumns(_, _, _)
SetColumns(row, assignments, params) ==
    IF assignments = <<>> THEN row
    ELSE LET a == Head(assignments)
         IN  SetColumns([row EXCEPT ![a.col] = params[a.p]], Tail(assignments), params)

(* an UPDATE that also moves created_at of the row it matches *)
UpdateRowsRestamping(tbl, assignments, idParamIndex, params) ==
    [i \in DOMAIN tbl |->
        IF i = params[idParamIndex]
        THEN [SetColumns(tbl[i], assignments, params)
                 EXCEPT !.created_at = tbl[i].updated_at + 1]
        ELSE tbl[i]]

(* the UPDATE without its WHERE clause *)
UpdateEveryRow(tbl, assignments, idParamIndex, params) ==
    [i \in DOMAIN tbl |-> SetColumns(tbl[i], assignments, params)]

UpdateRows(tbl, assignments, idParamIndex, params) ==
    [i \in DOMAIN tbl |->
        IF i = params[idParamIndex] THEN SetColumns(tbl[i], assignments, params)
        ELSE tbl[i]]

(* a DELETE whose WHERE clause matches no row *)
DeleteNoRows(tbl, params) == tbl

(* DELETE FROM articles WHERE id = $1 *)
DeleteRows(tbl, params) == [i \in DOMAIN tbl \ {params[1]} |-> tbl[i]]

(* a WHERE clause that matches no row *)
MatchIdOff(tbl, id) == {}

(* rows matched by WHERE id = $n *)
MatchId(tbl, id) == {i \in DOMAIN tbl : i = id}

(* ORDER BY created_at <direction>: the orders the statement may return;   *)
(* rows with equal created_at come in either order.                         *)
ComesFirst(tbl, ids, direction) ==
    {i \in ids : \A j \in ids :
        IF direction = "asc"
        THEN tbl[i].created_at <= tbl[j].created_at
        ELSE tbl[i].created_at >= tbl[j].created_at}

RECURSIVE Orderings(_, _, _)
Orderings(tbl, ids, direction) ==
    IF ids = {} THEN {<<>>}
    ELSE UNION {{<<i>> \o s : s \in Orderings(tbl, ids \ {i}, direction)} :
                   i \in ComesFirst(tbl, ids, direction)}

(* the OFFSET left out of the page query *)
LimitOnly(s, limit, offset) == SubSeq(s, 1, Min(Len(s), limit))

(* LIMIT $1 OFFSET $2 *)
LimitOffset(s, limit, offset) ==
    SubSeq(s, offset + 1, Min(Len(s), offset + limit))

(* the range taken without its end points *)
InRangeOpen(tbl, from, to) ==
    {i \in DOMAIN tbl : tbl[i].created_at > from /\ tbl[i].created_at < to}

(* WHERE created_at >= from AND created_at <= to *)
InRange(tbl, from, to) ==
    {i \in DOMAIN tbl : tbl[i].created_at >= from /\ tbl[i].created_at <= to}

\* SELECT COUNT ... ::text: the decimal digits of the count
RECURSIVE ToText(_)
ToText(n) == IF n < 10 THEN <<n>> ELSE Append(ToText(n \div 10), n % 10)

(* Number.parseInt(text, 10) *)
RECURSIVE ParseInt(_)
ParseInt(digits) ==
    IF Len(digits) = 1 THEN digits[1]
    ELSE 10 * ParseInt(SubSeq(digits, 1, Len(digits) - 1)) + digits[Len(digits)]

----------------------------------------------------------------------------
(* ArticleRepository *)

mapDate(value) == value

mapRow(row) ==
    [id |-> row.id, title |-> row.title, content |-> row.content,
     photoUrl |-> row.photo_url,
     createdAt |-> mapDate(row.created_at), updatedAt |-> mapDate(row.updated_at)]

(* input.photoUrl ?? null *)
OrNull(v) == IF v = Undef \/ v = Null THEN Null ELSE v

(* the photo dropped from the INSERT parameters *)
createArticleParamsNoPhoto(input) == <<input.title, input.content, Null>>

createArticleParams(input) == <<input.title, input.content, OrNull(input.photoUrl)>>

(* photoUrl tested for truth: null counts as absent *)
buildUpdateStatementNullAbsent(input) ==
    LET a1 == IF input.title # Undef THEN <<[col |-> "title", p |-> 1]>> ELSE <<>>
        v1 == IF input.title # Undef THEN <<input.title>> ELSE <<>>
        i1 == IF input.title # Undef THEN 2 ELSE 1
        a2 == IF input.content # Undef
              THEN Append(a1, [col |-> "content", p |-> i1]) ELSE a1
        v2 == IF input.content # Undef THEN Append(v1, input.content) ELSE v1
        i2 == IF input.content # Undef THEN i1 + 1 ELSE i1
        a3 == IF input.photoUrl \notin {Undef, Null}
              THEN Append(a2, [col |-> "photo_url", p |-> i2]) ELSE a2
        v3 == IF input.photoUrl \notin {Undef, Null}
              THEN Append(v2, input.photoUrl) ELSE v2
    IN  [assignments |-> a3, values |-> v3]

(* paramIndex starting at 0 instead of 1 *)
buildUpdateStatementFromZero(input) ==
    LET a1 == IF input.title # Undef THEN <<[col |-> "title", p |-> 0]>> ELSE <<>>
        v1 == IF input.title # Undef THEN <<input.title>> ELSE <<>>
        i1 == IF input.title # Undef THEN 1 ELSE 0
        a2 == IF input.content # Undef
              THEN Append(a1, [col |-> "content", p |-> i1]) ELSE a1
        v2 == IF input.content # Undef THEN Append(v1, input.content) ELSE v1
        i2 == IF input.content # Undef THEN i1 + 1 ELSE i1
        a3 == IF input.photoUrl # Undef
              THEN Append(a2, [col |-> "photo_url", p |-> i2]) ELSE a2
        v3 == IF input.photoUrl # Undef THEN Append(v2, input.photoUrl) ELSE v2
    IN  [assignments |-> a3, values |-> v3]

(* paramIndex not advanced after content: photo_url reuses its placeholder *)
buildUpdateStatementStuck(input) ==
    LET a1 == IF input.title # Undef THEN <<[col |-> "title", p |-> 1]>> ELSE <<>>
        v1 == IF input.title # Undef THEN <<input.title>> ELSE <<>>
        i1 == IF input.title # Undef THEN 2 ELSE 1
        a2 == IF input.content # Undef
              THEN Append(a1, [col |-> "content", p |-> i1]) ELSE a1
        v2 == IF input.content # Undef THEN Append(v1, input.content) ELSE v1
        a3 == IF input.photoUrl # Undef
              THEN Append(a2, [col |-> "photo_url", p |-> i1]) ELSE a2
        v3 == IF input.photoUrl # Undef THEN Append(v2, input.photoUrl) ELSE v2
    IN  [assignments |-> a3, values |-> v3]

buildUpdateStatement(input) ==
    LET a1 == IF input.title # Undef THEN <<[col |-> "title", p |-> 1]>> ELSE <<>>
        v1 == IF input.title # Undef THEN <<input.title>> ELSE <<>>
        i1 == IF input.title # Undef THEN 2 ELSE 1
        a2 == IF input.content # Undef
              THEN Append(a1, [col |-> "content", p |-> i1]) ELSE a1
        v2 == IF input.content # Undef THEN Append(v1, input.content) ELSE v1
        i2 == IF input.content # Undef THEN i1 + 1 ELSE i1
        a3 == IF input.photoUrl # Undef
              THEN Append(a2, [col |-> "photo_url", p |-> i2]) ELSE a2
        v3 == IF input.photoUrl # Undef THEN Append(v2, input.photoUrl) ELSE v2
    IN  [assignments |-> a3, values |-> v3]

(* the quotient cut off instead of rounded up *)
CeilTruncated(a, b) == a \div b

(* Math.ceil(totalItems / pageSize) *)
Ceil(a, b) == IF a % b = 0 THEN a \div b ELSE (a \div b) + 1

Pagination(page, pageSize, countText) ==
    LET totalItems == ParseInt(countText)
        totalPages == IF totalItems = 0 THEN 0 ELSE Ceil(totalItems, pageSize)
    IN  [page |-> page, pageSize |-> pageSize, totalItems |-> totalItems,
         totalPages |-> totalPages, hasNextPage |-> page < totalPages]

(* the two statements of a listing: the page of rows, and the count *)
PageQuery(tbl, ids, pageSize, offset, sortDirection) ==
    {LimitOffset(s, pageSize, offset) : s \in Orderings(tbl, ids, sortDirection)}

CountQuery(ids) == ToText(Cardinality(ids))

PaginatedArticlesResult(tbl, items, page, pageSize, countText) ==
    [data |-> [i \in DOMAIN items |-> mapRow(tbl[items[i]])],
     pagination |-> Pagination(page, pageSize, countText)]

----------------------------------------------------------------------------
(* ArticleService *)

(* the range check left out *)
ensureValidDateRangeOff(from, to) == TRUE

ensureValidDateRange(from, to) == ~(from > to)

----------------------------------------------------------------------------
(* AiGenerateArticleRepository.  reply is what chat.completions.create     *)
(* does: it rejects, or resolves with a list of choices, each the content   *)
(* of a message (a string or null).                                         *)

(* message.content ?? '' *)
OrEmpty(v) == IF v = Undef \/ v = Null THEN "" ELSE v

fetchArticleFromProvider(isConfigured, reply) ==
    IF isConfigured
    THEN IF reply.fails
         THEN [err |-> "APIError", title |-> Null, content |-> Null, photoUrl |-> Null]
         ELSE IF Len(reply.choices) = 0
         THEN [err |-> "TypeError", title |-> Null, content |-> Null, photoUrl |-> Null]
         ELSE [err |-> "none", title |-> OrEmpty(reply.choices[1]),
               content |-> OrEmpty(reply.choices[1]), photoUrl |-> Null]
    ELSE [err |-> "Error", title |-> Null, content |-> Null, photoUrl |-> Null]

generateArticle(isConfigured, reply) ==
    LET providerResponse == fetchArticleFromProvider(isConfigured, reply)
    IN  [err |-> providerResponse.err,
         title |-> providerResponse.title, content |-> providerResponse.content,
         photoUrl |-> OrNull(providerResponse.photoUrl)]

----------------------------------------------------------------------------
(* The outcome of a request: what the handler sent, or what it handed to    *)
(* next.  status is the response status; err names the error raised below   *)
(* the controller; calls lists the repository methods invoked, queries      *)
(* counts the statements sent to the table, limit is the LIMIT parameter of *)
(* the page query, raw the query string of a listing request.               *)

(* HttpError keeps its statusCode; any other error handed to next is an     *)
(* internal error.                                                          *)
errorHandler(err, statusCode) == IF err = "HttpError" THEN statusCode ELSE 500

(* a request without a query string: every key is absent *)
NoQuery ==
    [page |-> RawUndef, pageSize |-> RawUndef, sortDirection |-> Undef,
     from |-> RawUndef, to |-> RawUndef]

Outcome(op, status, err, issues, id, in, body, calls, queries) ==
    [op |-> op, status |-> status, err |-> err, issues |-> issues, id |-> id,
     in |-> in, inverted |-> FALSE, body |-> body, calls |-> calls,
     queries |-> queries, limit |-> 0, articleId |-> 0, raw |-> NoQuery]

(* handleError: a ZodError becomes HttpError('Validation Error', 400, issues) *)
handleError(op, issues, id, in) ==
    Outcome(op, 400, "ZodError", issues, id, in, Null, <<>>, 0)

NoRequest == Outcome("none", 0, "none", {}, 0, Null, Null, <<>>, 0)

(* throw new ArticleNotFoundError(id), which the controller hands to next as *)
(* HttpError(error.message, 404)                                             *)
ArticleNotFoundError(op, articleId, requested, in, call) ==
    [Outcome(op, errorHandler("HttpError", 404), "ArticleNotFoundError", {}, requested, in,
             Null, <<call>>, 1)
     EXCEPT !.articleId = articleId]

(* no listing is in flight *)
NoListing ==
    [op |-> "none", params |-> Null, pageDone |-> FALSE, data |-> <<>>,
     countDone |-> FALSE, count |-> <<>>]

----------------------------------------------------------------------------
(* Request inputs *)

RawIds == {RawInt(i) : i \in 1..(MaxId + 1)}
BadRawIds == {RawInt(0), RawText}
NoBody == [title |-> Undef, content |-> Undef, photoUrl |-> Undef]
CreateBodies ==
    [title : {"A"}, content : {"C"}, photoUrl : {Undef, Null, "p"}]
    \cup {[NoBody EXCEPT !.title = "", !.content = "C"],
          [NoBody EXCEPT !.title = "A", !.content = ""],
          [NoBody EXCEPT !.title = "A"]}
UpdateBodies ==
    [title : {Undef, "B"}, content : {Undef, "D"}, photoUrl : {Undef, Null, "p"}]
    \cup {[NoBody EXCEPT !.title = ""],
          [NoBody EXCEPT !.title = "B", !.content = ""]}
(* every body against the first id, one body against each other id *)
UpdateRequests ==
    {<<[id |-> RawInt(1)], b>> : b \in UpdateBodies}
    \cup {<<p, [NoBody EXCEPT !.title = "B"]>> : p \in [id : RawIds]}
    \cup {<<p, NoBody>> : p \in [id : BadRawIds]}

Message(role, content, extra) == [role |-> role, content |-> content, extra |-> extra]
GenerateBodies ==
    [model : {"gpt"},
     messages : {<<Message("system", "s", FALSE), Message("user", "hi", FALSE),
                   Message("assistant", Null, FALSE)>>}]
    \cup {[model |-> "", messages |-> <<>>],
          [model |-> "gpt", messages |-> <<Message("user", Undef, FALSE)>>],
          [model |-> "gpt", messages |-> <<Message("tool", "x", FALSE)>>],
          [model |-> "gpt", messages |-> <<Message("system", "s", TRUE)>>]}
Replies ==
    {[fails |-> TRUE, choices |-> <<>>]}
    \cup {[fails |-> FALSE, choices |-> c] : c \in {<<>>, <<Null>>, <<"">>, <<"G">>}}

DateRaws == {RawDate(t) : t \in 0..MaxClock}
PlainQuery ==
    [page |-> RawUndef, pageSize |-> RawUndef, sortDirection |-> Undef,
     from |-> RawUndef, to |-> RawUndef]
PagedQueries ==
    [page : {RawUndef, RawInt(2)},
     pageSize : {RawInt(1), RawInt(2), RawInt(50), RawInt(51)},
     sortDirection : {Undef, "asc"}, from : {RawUndef}, to : {RawUndef}]
BadQueries ==
    {[PlainQuery EXCEPT !.page = RawInt(0)], [PlainQuery EXCEPT !.page = RawText],
     [PlainQuery EXCEPT !.pageSize = RawInt(0)], [PlainQuery EXCEPT !.pageSize = RawFrac],
     [PlainQuery EXCEPT !.sortDirection = "ASC"],
     [PlainQuery EXCEPT !.from = RawText, !.to = RawDate(0)],
     [PlainQuery EXCEPT !.page = RawText, !.from = RawDate(MaxClock), !.to = RawDate(0)],
     [PlainQuery EXCEPT !.page = RawInt(0), !.from = RawDate(MaxClock), !.to = RawDate(0)]}
ListQueries ==
    PagedQueries \cup BadQueries
    \cup {PlainQuery, [PlainQuery EXCEPT !.sortDirection = "desc"],
          [PlainQuery EXCEPT !.from = RawDate(MaxClock), !.to = RawDate(0)]}
SearchQueries ==
    {[q EXCEPT !.from = f, !.to = RawDate(MaxClock)] :
        q \in PagedQueries, f \in {RawDate(0), RawDate(MaxClock)}}
    \cup {[PlainQuery EXCEPT !.from = f, !.to = t] :
             f \in DateRaws \cup {RawUndef}, t \in DateRaws \cup {RawUndef}}
    \cup BadQueries
ServiceParams ==
    [from : 0..MaxClock, to : 0..MaxClock, page : {1}, pageSize : {1, 2},
     sortDirection : {"desc"}]
ListedBodies ==
    {[NoBody EXCEPT !.title = "A", !.content = "C"], [NoBody EXCEPT !.title = "A"]}
TitleUpdates ==
    {<<p, b>> : p \in [id : RawIds],
                b \in {[NoBody EXCEPT !.title = "B"], [NoBody EXCEPT !.title = ""]}}

Init ==
    /\ rows = <<>>
    /\ seq = 0
    /\ now = 0
    /\ configured = TRUE
    /\ last = NoRequest
    /\ made = <<>>
    /\ deleted = {}
    /\ inflight = NoListing

(* the database clock advances *)
Tick ==
    /\ now < MaxClock
    /\ now' = now + 1
    /\ UNCHANGED <<rows, seq, configured, inflight, last, made, deleted>>

Forget(f, id) == [i \in DOMAIN f \ {id} |-> f[i]]

(* POST /articles: validateBody(createArticleSchema), controller.create,   *)
(* service.createArticle, repository.createArticle                         *)
HttpCreate(b) ==
    LET issues == createArticleIssues(b)
        input == createArticleSchema(b)
        row == InsertRow(seq, now, createArticleParams(input))
    IN  /\ UNCHANGED <<now, configured, inflight, deleted>>
        /\ IF issues # {}
           THEN /\ last' = handleError("create", issues, 0, b)
                /\ UNCHANGED <<rows, seq, made>>
           ELSE /\ seq < MaxId
                /\ rows' = rows @@ (row.id :> row)
                /\ seq' = row.id
                /\ made' = made @@ (row.id :> mapRow(row))
                /\ last' = Outcome("create", 201, "none", {}, row.id, b,
                                   mapRow(row), <<"createArticle">>, 1)

(* GET /articles/:id *)
HttpGetById(p) ==
    LET issues == articleIdIssues(p)
        id == articleIdSchema(p).id
        found == MatchId(rows, id)
    IN  /\ UNCHANGED <<rows, seq, now, configured, inflight, made, deleted>>
        /\ last' =
             IF issues # {} THEN handleError("get", issues, 0, Null)
             ELSE IF Cardinality(found) = 0
             THEN ArticleNotFoundError("get", id, p.id.n, Null, "getArticleById")
             ELSE Outcome("get", 200, "none", {}, p.id.n, Null, mapRow(rows[id]),
                          <<"getArticleById">>, 1)

(* PATCH /articles/:id *)
HttpUpdate(p, b) ==
    LET idIssues == articleIdIssues(p)
        id == articleIdSchema(p).id
        issues == updateArticleIssues(b)
        changes == updateArticleSchema(b)
        st == buildUpdateStatement(changes)
        idParamIndex == Len(st.assignments) + 1
        params == Append(st.values, id)
        rowCount == Cardinality(MatchId(rows, id))
        updated == UpdateRows(rows, st.assignments, idParamIndex, params)
    IN  /\ UNCHANGED <<seq, now, configured, inflight, deleted>>
        /\ IF idIssues # {}
           THEN /\ last' = handleError("update", idIssues, 0, b)
                /\ UNCHANGED <<rows, made>>
           ELSE IF issues # {}
           THEN /\ last' = handleError("update", issues, id, b)
                /\ UNCHANGED <<rows, made>>
           ELSE IF Len(st.assignments) = 0
           THEN /\ last' = Outcome("update", errorHandler("Error", 0), "Error", {}, id, b,
                                   Null, <<"updateArticle">>, 0)
                /\ UNCHANGED <<rows, made>>
           ELSE /\ rows' = updated
                /\ made' = Forget(made, id)
                /\ last' =
                     IF rowCount = 0
                     THEN ArticleNotFoundError("update", id, p.id.n, b, "updateArticle")
                     ELSE Outcome("update", 200, "none", {}, id, b, mapRow(updated[id]),
                                  <<"updateArticle">>, 1)

(* DELETE /articles/:id *)
HttpDelete(p) ==
    LET issues == articleIdIssues(p)
        id == articleIdSchema(p).id
        deletedRows == Cardinality(MatchId(rows, id))
    IN  /\ UNCHANGED <<seq, now, configured, inflight>>
        /\ IF issues # {}
           THEN /\ last' = handleError("delete", issues, 0, Null)
                /\ UNCHANGED <<rows, made, deleted>>
           ELSE /\ rows' = DeleteRows(rows, <<id>>)
                /\ made' = Forget(made, id)
                /\ deleted' = IF deletedRows > 0 THEN deleted \cup {id} ELSE deleted
                /\ last' =
                     IF deletedRows > 0
                     THEN Outcome("delete", 204, "none", {}, id, Null, Null,
                                  <<"deleteArticle">>, 1)
                     ELSE ArticleNotFoundError("delete", id, p.id.n, Null, "deleteArticle")

(* POST /articles (generate): validateBody(generateArticleSchema),        *)
(* controller.generate, service.generateArticle                            *)
HttpGenerate(b, reply) ==
    LET issues == generateArticleIssues(b)
        generatedArticleInput == generateArticle(configured, reply)
        row == InsertRow(seq, now, createArticleParams(generatedArticleInput))
    IN  /\ UNCHANGED <<now, configured, inflight, deleted>>
        /\ IF issues # {}
           THEN /\ last' = handleError("generate", issues, 0, Null)
                /\ UNCHANGED <<rows, seq, made>>
           ELSE IF generatedArticleInput.err # "none"
           THEN /\ last' = Outcome("generate", errorHandler(generatedArticleInput.err, 0),
                                   generatedArticleInput.err, {}, 0, reply, Null,
                                   <<"generateArticle">>, 0)
                /\ UNCHANGED <<rows, seq, made>>
           ELSE /\ seq < MaxId
                /\ rows' = rows @@ (row.id :> row)
                /\ seq' = row.id
                /\ made' = made @@ (row.id :> mapRow(row))
                /\ last' = Outcome("generate", 201, "none", {}, row.id, reply,
                                   mapRow(row), <<"generateArticle", "createArticle">>, 1)

(* the raw query has two dates, the first later than the second *)
Inverted(q) == IsDate(q.from) /\ IsDate(q.to) /\ q.from.n > q.to.n

buildPaginationParams(query) ==
    [page |-> query.page, pageSize |-> query.pageSize,
     sortDirection |-> query.sortDirection]

(* repository.listArticles: both statements read the table as it is *)
listArticles(params) ==
    LET offset == (params.page - 1) * params.pageSize
        ids == DOMAIN rows
    IN  {PaginatedArticlesResult(rows, items, params.page, params.pageSize, CountQuery(ids)) :
            items \in PageQuery(rows, ids, params.pageSize, offset, params.sortDirection)}

(* repository.listArticlesByDateRange *)
listArticlesByDateRange(params) ==
    LET offset == (params.page - 1) * params.pageSize
        ids == InRange(rows, params.from, params.to)
    IN  {PaginatedArticlesResult(rows, items, params.page, params.pageSize, CountQuery(ids)) :
            items \in PageQuery(rows, ids, params.pageSize, offset, params.sortDirection)}

(* GET /articles *)
HttpList(q) ==
    LET issues == listArticlesIssues(q)
        pagination == buildPaginationParams(listArticlesSchema(q))
    IN  /\ UNCHANGED <<rows, seq, now, configured, inflight, made, deleted>>
        /\ IF issues # {}
           THEN last' = [handleError("list", issues, 0, Null) EXCEPT !.raw = q, !.inverted = Inverted(q)]
           ELSE \E result \in listArticles(pagination) :
                  last' = [Outcome("list", 200, "none", {}, 0, pagination, result,
                                   <<"listArticles">>, 2)
                           EXCEPT !.raw = q, !.inverted = Inverted(q), !.limit = pagination.pageSize]

(* GET /articles/search *)
HttpSearch(q) ==
    LET issues == listArticlesIssues(q)
        query == listArticlesSchema(q)
        params == [from |-> query.from.n, to |-> query.to.n, page |-> query.page,
                   pageSize |-> query.pageSize, sortDirection |-> query.sortDirection]
    IN  /\ UNCHANGED <<rows, seq, now, configured, inflight, made, deleted>>
        /\ IF issues # {}
           THEN last' = [handleError("search", issues, 0, Null) EXCEPT !.raw = q, !.inverted = Inverted(q)]
           ELSE IF Absent(query.from) \/ Absent(query.to)
           THEN last' = [Outcome("search", 400, "HttpError", {}, 0, Null, Null, <<>>, 0)
                         EXCEPT !.raw = q]
           ELSE IF ~ensureValidDateRange(params.from, params.to)
           THEN last' = [Outcome("search", 400, "InvalidDateRangeError", {}, 0, params, Null,
                                 <<>>, 0)
                         EXCEPT !.raw = q, !.inverted = Inverted(q)]
           ELSE \E result \in listArticlesByDateRange(params) :
                  last' = [Outcome("search", 200, "none", {}, 0, params, result,
                                   <<"listArticlesByDateRange">>, 2)
                           EXCEPT !.raw = q, !.limit = params.pageSize]

(* service.listArticlesByDateRange called with typed parameters *)
ServiceListByDateRange(params) ==
    /\ UNCHANGED <<rows, seq, now, configured, inflight, made, deleted>>
    /\ IF ~ensureValidDateRange(params.from, params.to)
       THEN last' = [Outcome("service.search", 0, "InvalidDateRangeError", {}, 0, params, Null,
                             <<>>, 0)
                     EXCEPT !.inverted = params.from > params.to]
       ELSE \E result \in listArticlesByDateRange(params) :
              last' = [Outcome("service.search", 0, "none", {}, 0, params, result,
                               <<"listArticlesByDateRange">>, 2)
                       EXCEPT !.inverted = params.from > params.to, !.limit = params.pageSize]

Next ==
    \/ Tick
    \/ \E b \in CreateBodies : HttpCreate(b)
    \/ \E p \in [id : RawIds \cup BadRawIds] : HttpGetById(p)
    \/ \E r \in UpdateRequests : HttpUpdate(r[1], r[2])
    \/ \E p \in [id : RawIds \cup BadRawIds] : HttpDelete(p)

Spec == Init /\ [][Next]_vars

(* The listings, over a table that requests fill and empty. *)
NextList ==
    \/ Tick
    \/ \E b \in ListedBodies : HttpCreate(b)
    \/ \E p \in [id : RawIds \cup BadRawIds] : HttpDelete(p)
    \/ \E q \in ListQueries : HttpList(q)
    \/ \E q \in SearchQueries : HttpSearch(q)
    \/ \E params \in ServiceParams : ServiceListByDateRange(params)

SpecList == Init /\ [][NextList]_vars

(* The service built with or without a usable provider configuration, and  *)
(* the requests that write articles.                                        *)
InitGen ==
    /\ rows = <<>>
    /\ seq = 0
    /\ now = 0
    /\ configured \in BOOLEAN
    /\ last = NoRequest
    /\ made = <<>>
    /\ deleted = {}
    /\ inflight = NoListing

NextGen ==
    \/ Tick
    \/ \E b \in ListedBodies : HttpCreate(b)
    \/ \E b \in GenerateBodies, reply \in Replies : HttpGenerate(b, reply)
    \/ \E r \in TitleUpdates : HttpUpdate(r[1], r[2])
    \/ \E p \in [id : RawIds] : HttpDelete(p)

SpecGen == InitGen /\ [][NextGen]_vars

(* A listing taken apart at its awaits.  Promise.all sends the page query   *)
(* and the count query through runQuery, each a statement of its own on a   *)
(* pooled connection; they complete in either order, other requests'        *)
(* statements may run before, between and after them, and the handler goes  *)
(* on once both have settled.                                                *)
RaceQueries ==
    {PlainQuery, [PlainQuery EXCEPT !.pageSize = RawInt(1)],
     [PlainQuery EXCEPT !.page = RawInt(2), !.pageSize = RawInt(1)]}
RaceSearches ==
    {[q EXCEPT !.from = RawDate(0), !.to = RawDate(MaxClock)] : q \in RaceQueries}

BeginList(q) ==
    /\ inflight.op = "none"
    /\ listArticlesIssues(q) = {}
    /\ inflight' = [NoListing EXCEPT !.op = "list",
                                     !.params = buildPaginationParams(listArticlesSchema(q))]
    /\ UNCHANGED <<rows, seq, now, configured, last, made, deleted>>

BeginSearch(q) ==
    LET query == listArticlesSchema(q)
        params == [from |-> query.from.n, to |-> query.to.n, page |-> query.page,
                   pageSize |-> query.pageSize, sortDirection |-> query.sortDirection]
    IN  /\ inflight.op = "none"
        /\ listArticlesIssues(q) = {}
        /\ ~(Absent(query.from) \/ Absent(query.to))
        /\ ensureValidDateRange(params.from, params.to)
        /\ inflight' = [NoListing EXCEPT !.op = "search", !.params = params]
        /\ UNCHANGED <<rows, seq, now, configured, last, made, deleted>>

(* the rows the WHERE clause of the listing in flight selects *)
Selected ==
    IF inflight.op = "search"
    THEN InRange(rows, inflight.params.from, inflight.params.to)
    ELSE DOMAIN rows

RunPageQuery ==
    LET params == inflight.params
        offset == (params.page - 1) * params.pageSize
    IN  /\ inflight.op # "none"
        /\ ~inflight.pageDone
        /\ \E items \in PageQuery(rows, Selected, params.pageSize, offset,
                                   params.sortDirection) :
              inflight' = [inflight EXCEPT
                              !.pageDone = TRUE,
                              !.data = [i \in DOMAIN items |-> mapRow(rows[items[i]])]]
        /\ UNCHANGED <<rows, seq, now, configured, last, made, deleted>>

RunCountQuery ==
    /\ inflight.op # "none"
    /\ ~inflight.countDone
    /\ inflight' = [inflight EXCEPT !.countDone = TRUE, !.count = CountQuery(Selected)]
    /\ UNCHANGED <<rows, seq, now, configured, last, made, deleted>>

ListingSettles ==
    LET params == inflight.params
        result == [data |-> inflight.data,
                   pagination |-> Pagination(params.page, params.pageSize, inflight.count)]
    IN  /\ inflight.pageDone
        /\ inflight.countDone
        /\ last' = [Outcome(inflight.op, 200, "none", {}, 0, params, result,
                            <<IF inflight.op = "search" THEN "listArticlesByDateRange"
                              ELSE "listArticles">>, 2)
                    EXCEPT !.limit = params.pageSize]
        /\ inflight' = NoListing
        /\ UNCHANGED <<rows, seq, now, configured, made, deleted>>

NextRace ==
    \/ Tick
    \/ \E b \in ListedBodies : HttpCreate(b)
    \/ \E p \in [id : RawIds] : HttpDelete(p)
    \/ \E q \in RaceQueries : BeginList(q)
    \/ \E q \in RaceSearches : BeginSearch(q)
    \/ RunPageQuery
    \/ RunCountQuery
    \/ ListingSettles

SpecRace == Init /\ [][NextRace]_vars

(* Every route of the router, with requests that pass and requests that    *)
(* fail each schema.                                                         *)
RouteBodies ==
    {[NoBody EXCEPT !.title = "A", !.content = "C"],
     [NoBody EXCEPT !.title = "", !.content = "C"],
     [NoBody EXCEPT !.title = "A", !.content = ""],
     [NoBody EXCEPT !.title = "A"]}
RouteUpdates ==
    {<<[id |-> RawInt(1)], [NoBody EXCEPT !.title = t]>> : t \in {"B", ""}}
    \cup {<<p, [NoBody EXCEPT !.title = "B"]>> : p \in [id : BadRawIds]}
RouteQueries ==
    BadQueries
    \cup {PlainQuery, [PlainQuery EXCEPT !.from = RawDate(0), !.to = RawDate(MaxClock)]}

NextRoutes ==
    \/ Tick
    \/ \E b \in RouteBodies : HttpCreate(b)
    \/ \E p \in [id : RawIds \cup BadRawIds] : HttpGetById(p)
    \/ \E r \in RouteUpdates : HttpUpdate(r[1], r[2])
    \/ \E p \in [id : RawIds \cup BadRawIds] : HttpDelete(p)
    \/ \E q \in RouteQueries : HttpList(q)
    \/ \E q \in RouteQueries : HttpSearch(q)

SpecRoutes == Init /\ [][NextRoutes]_vars

----------------------------------------------------------------------------
(* Properties *)

(* a step that completes a request of the given kind: only Tick moves the  *)
(* clock, every other step records its request in last                     *)
Completes(op) == now' = now /\ last'.op = op

Listed == last.op \in {"list", "search", "service.search"} /\ last.err = "none"

(* C1: for every listing with page >= 1 and 1 <= pageSize <= 50, totalPages *)
(* is the least number of pages of pageSize that hold totalItems (0 when    *)
(* totalItems is 0), and hasNextPage holds exactly when page < totalPages.  *)
PaginationMetadata ==
    (Listed /\ last.in.page >= 1 /\ last.in.pageSize \in 1..MAX_PAGE_SIZE) =>
        LET pg == last.body.pagination
        IN  /\ pg.page = last.in.page
            /\ pg.pageSize = last.in.pageSize
            /\ pg.totalItems >= 0
            /\ pg.totalPages >= 0
            /\ pg.totalPages * pg.pageSize >= pg.totalItems
            /\ pg.totalPages > 0 => (pg.totalPages - 1) * pg.pageSize < pg.totalItems
            /\ pg.totalItems = 0 => pg.totalPages = 0
            /\ pg.hasNextPage <=> pg.page < pg.totalPages

PaginationMetadataWitness ==
    /\ Listed
    /\ last.op = "search"
    /\ last.in.pageSize = 2
    /\ last.body.pagination.totalItems = 1
    /\ last.body.pagination.totalPages = 1
    /\ ~last.body.pagination.hasNextPage

(* C2: a successful updateArticle gives exactly the supplied fields their   *)
(* supplied values, keeps the article's other fields among title, content  *)
(* and photoUrl, its id and its createdAt, and keeps every other article.   *)
UpdateChangesOnlySupplied ==
    [][(Completes("update") /\ last'.status = 200) =>
          LET id == last'.id
              changes == last'.in
          IN  /\ id \in DOMAIN rows
              /\ DOMAIN rows' = DOMAIN rows
              /\ rows'[id].title =
                    IF changes.title # Undef THEN changes.title ELSE rows[id].title
              /\ rows'[id].content =
                    IF changes.content # Undef THEN changes.content ELSE rows[id].content
              /\ rows'[id].photo_url =
                    IF changes.photoUrl # Undef THEN changes.photoUrl ELSE rows[id].photo_url
              /\ rows'[id].id = rows[id].id
              /\ rows'[id].created_at = rows[id].created_at
              /\ \A i \in DOMAIN rows \ {id} : rows'[i] = rows[i]
              /\ last'.body.title = rows'[id].title
              /\ last'.body.content = rows'[id].content
              /\ last'.body.photoUrl = rows'[id].photo_url
              /\ last'.body.id = id
              /\ last'.body.createdAt = rows[id].created_at]_vars

UpdateChangesOnlySuppliedWitness ==
    /\ last.op = "update"
    /\ last.status = 200
    /\ last.in.title = Undef
    /\ last.in.content = "D"
    /\ last.in.photoUrl = "p"
    /\ rows[last.id].title = "A"
    /\ \E i \in DOMAIN rows : i # last.id /\ rows[i].content = "C"

(* C3: every successful updateArticle returns, and stores, an updatedAt    *)
(* later than the article's updatedAt before the update (the clock having   *)
(* moved since that earlier write).                                         *)
UpdateRefreshesUpdatedAt ==
    [][(Completes("update") /\ last'.status = 200 /\ now > rows[last'.id].updated_at) =>
          /\ last'.body.updatedAt > rows[last'.id].updated_at
          /\ rows'[last'.id].updated_at > rows[last'.id].updated_at]_vars

(* C4: what createArticle returns has the title, content and photoUrl of   *)
(* the input (photoUrl null when omitted), and getArticleById on that id,   *)
(* with no update or delete of it in between, returns the same three.       *)
CreateThenGet ==
    /\ (last.op = "create" /\ last.status = 201) =>
          /\ last.body.title = last.in.title
          /\ last.body.content = last.in.content
          /\ last.body.photoUrl =
                IF last.in.photoUrl = Undef THEN Null ELSE last.in.photoUrl
          /\ last.id \in DOMAIN made
          /\ made[last.id] = last.body
    /\ (last.op = "get" /\ last.id \in DOMAIN made) =>
          /\ last.status = 200
          /\ last.body.title = made[last.id].title
          /\ last.body.content = made[last.id].content
          /\ last.body.photoUrl = made[last.id].photoUrl

CreateThenGetWitness ==
    /\ last.op = "get"
    /\ last.status = 200
    /\ last.id \in DOMAIN made
    /\ last.body.photoUrl = "p"
    /\ Cardinality(DOMAIN rows) = 2

(* C5: deleteArticle on an id with no stored row is not found (404) and    *)
(* leaves the table as it is, on every call; on a stored id it succeeds     *)
(* (204) and removes that row only, so a repeat is not found.               *)
DeleteOutcomes ==
    [][(Completes("delete") /\ last'.issues = {}) =>
          LET id == last'.id
          IN  /\ id \in deleted => id \notin DOMAIN rows
              /\ IF id \in DOMAIN rows
                 THEN /\ last'.status = 204
                      /\ last'.err = "none"
                      /\ DOMAIN rows' = DOMAIN rows \ {id}
                      /\ \A i \in DOMAIN rows' : rows'[i] = rows[i]
                 ELSE /\ last'.status = 404
                      /\ last'.err = "ArticleNotFoundError"
                      /\ rows' = rows]_vars

DeleteOutcomesWitness ==
    /\ last.op = "delete"
    /\ last.status = 404
    /\ last.id \in deleted
    /\ rows # <<>>

InvertedRangeServiceWitness ==
    /\ last.inverted
    /\ last.op = "service.search"
    /\ last.err = "InvalidDateRangeError"
    /\ rows # <<>>

(* C7: an update that supplies none of title, content, photoUrl is         *)
(* rejected with a validation error (400) and repository.updateArticle is   *)
(* not invoked.                                                             *)
EmptyUpdateRejected ==
    (last.op = "update" /\ last.in = NoBody) =>
        /\ last.status = 400
        /\ last.err = "ZodError"
        /\ last.calls = <<>>

(* C8: a listing whose pageSize exceeds 50 is accepted and clamped: the    *)
(* LIMIT of the page query and the reported pageSize are in 1..50.          *)
PageSizeClamped ==
    (last.op \in {"list", "search"} /\ last.issues = {} /\ last.err # "HttpError"
        /\ ~last.inverted) =>
        /\ last.status = 200
        /\ last.limit \in 1..MAX_PAGE_SIZE
        /\ last.body.pagination.pageSize = last.limit
        /\ last.in.pageSize > MAX_PAGE_SIZE => last.limit = MAX_PAGE_SIZE

(* C9: generateArticle fails, and repository.createArticle is not invoked, *)
(* whenever the provider is unconfigured, its call fails or it returns no   *)
(* completion text; no article with an empty title or content is created.   *)
GenerateNeverEmpty ==
    (last.op = "generate" /\ last.issues = {}) =>
        /\ (\/ ~configured
            \/ last.in.fails
            \/ Len(last.in.choices) = 0
            \/ last.in.choices[1] = Null) =>
              /\ last.status # 201
              /\ last.err # "none"
              /\ last.calls = <<"generateArticle">>
        /\ last.status = 201 => last.body.title # "" /\ last.body.content # ""

(* C10: every stored article has a non-empty title and a non-empty content *)
StoredNonEmpty ==
    \A i \in DOMAIN rows : rows[i].title # "" /\ rows[i].content # ""

(* C11: getArticleById on a stored id answers 200 with the stored entity;   *)
(* on an id with no row it raises ArticleNotFoundError carrying that id,     *)
(* answered 404; the table is the same before and after in both cases.       *)
GetByIdOutcomes ==
    [][(Completes("get") /\ last'.issues = {}) =>
          LET id == last'.id
          IN  /\ rows' = rows
              /\ seq' = seq
              /\ IF id \in DOMAIN rows
                 THEN /\ last'.status = 200
                      /\ last'.err = "none"
                      /\ last'.body.id = id
                      /\ last'.body.title = rows[id].title
                      /\ last'.body.content = rows[id].content
                      /\ last'.body.photoUrl = rows[id].photo_url
                      /\ last'.body.createdAt = rows[id].created_at
                      /\ last'.body.updatedAt = rows[id].updated_at
                 ELSE /\ last'.status = 404
                      /\ last'.err = "ArticleNotFoundError"
                      /\ last'.articleId = id]_vars

GetByIdOutcomesWitness ==
    /\ last.op = "get"
    /\ last.status = 404
    /\ last.articleId = last.id
    /\ last.id \in deleted
    /\ rows # <<>>

GetByIdFoundWitness ==
    /\ last.op = "get"
    /\ last.status = 200
    /\ last.body.title = "B"
    /\ Cardinality(DOMAIN rows) = 2

(* C12: updateArticle with at least one field on an id with no stored row   *)
(* raises ArticleNotFoundError (404); no row is added and no row changes.    *)
UpdateMissingNotFound ==
    [][(/\ Completes("update")
        /\ last'.issues = {}
        /\ \E f \in {"title", "content", "photoUrl"} : last'.in[f] # Undef
        /\ last'.id \notin DOMAIN rows) =>
          /\ last'.status = 404
          /\ last'.err = "ArticleNotFoundError"
          /\ last'.articleId = last'.id
          /\ rows' = rows
          /\ seq' = seq]_vars

UpdateMissingNotFoundWitness ==
    /\ last.op = "update"
    /\ last.status = 404
    /\ last.in.title = "B"
    /\ last.id \notin DOMAIN rows
    /\ rows # <<>>

(* article i may stand before article j in a listing in the direction dir *)
MayPrecede(i, j, dir) ==
    IF dir = "asc" THEN rows[i].created_at <= rows[j].created_at
    ELSE rows[i].created_at >= rows[j].created_at

(* data is the page of pageSize entries at offset of the articles ids in    *)
(* some order by createdAt in the direction dir: it has the right length,   *)
(* holds distinct stored articles in order, exactly offset of the other     *)
(* articles may stand before its first entry and the rest after its last.   *)
IsPageOf(data, ids, offset, pageSize, dir) ==
    LET n == Cardinality(ids)
        got == {data[k].id : k \in DOMAIN data}
        rest == ids \ got
    IN  /\ Len(data) = IF n > offset THEN Min(pageSize, n - offset) ELSE 0
        /\ got \subseteq ids
        /\ Cardinality(got) = Len(data)
        /\ \A k \in DOMAIN data :
              LET r == rows[data[k].id]
              IN  /\ data[k].title = r.title
                  /\ data[k].content = r.content
                  /\ data[k].photoUrl = r.photo_url
                  /\ data[k].createdAt = r.created_at
                  /\ data[k].updatedAt = r.updated_at
        /\ \A k \in 1..(Len(data) - 1) : MayPrecede(data[k].id, data[k + 1].id, dir)
        /\ Len(data) > 0 =>
              \E before \in SUBSET rest :
                  /\ Cardinality(before) = offset
                  /\ \A b \in before : MayPrecede(b, data[1].id, dir)
                  /\ \A a \in rest \ before : MayPrecede(data[Len(data)].id, a, dir)

(* C13: with no write in between, listArticles answers without error and    *)
(* returns the entries at positions (page-1)*pageSize onward, at most        *)
(* pageSize of them, of all articles ordered by createdAt in the requested   *)
(* direction; past the end, and on an empty table, it returns no item.       *)
ListReturnsPage ==
    (last.op = "list" /\ last.issues = {}) =>
        /\ last.status = 200
        /\ last.err = "none"
        /\ IsPageOf(last.body.data, DOMAIN rows, (last.in.page - 1) * last.in.pageSize,
                    last.in.pageSize, last.in.sortDirection)

ListReturnsPageWitness ==
    /\ last.op = "list"
    /\ last.status = 200
    /\ last.in.page = 2
    /\ last.in.pageSize = 1
    /\ last.in.sortDirection = "desc"
    /\ Len(last.body.data) = 1
    /\ \E i \in DOMAIN rows : rows[i].created_at > last.body.data[1].createdAt

ListPastEndWitness ==
    /\ last.op = "list"
    /\ last.status = 200
    /\ last.in.page = 2
    /\ last.in.pageSize = 2
    /\ Cardinality(DOMAIN rows) = 2
    /\ last.body.data = <<>>

(* C15: for from <= to, listArticlesByDateRange returns only articles with  *)
(* from <= createdAt <= to, as the page of those articles ordered like       *)
(* listArticles, and totalItems counts the stored articles in that range.    *)
RangeReturnsPage ==
    (last.op \in {"search", "service.search"} /\ last.calls # <<>>) =>
        LET inside == {i \in DOMAIN rows : /\ last.in.from <= rows[i].created_at
                                           /\ rows[i].created_at <= last.in.to}
        IN  /\ last.in.from <= last.in.to
            /\ last.err = "none"
            /\ \A k \in DOMAIN last.body.data :
                  /\ last.in.from <= last.body.data[k].createdAt
                  /\ last.body.data[k].createdAt <= last.in.to
            /\ IsPageOf(last.body.data, inside, (last.in.page - 1) * last.in.pageSize,
                        last.in.pageSize, last.in.sortDirection)
            /\ last.body.pagination.totalItems = Cardinality(inside)

RangeReturnsPageWitness ==
    /\ last.op = "search"
    /\ last.status = 200
    /\ last.in.from = last.in.to
    /\ Len(last.body.data) = 1
    /\ last.body.data[1].createdAt = last.in.to
    /\ last.body.pagination.totalItems = 1
    /\ Cardinality(DOMAIN rows) = 2

(* C14: the items and the totalItems of one listing describe one state of   *)
(* the table, whatever creates and deletes run while it is in flight: the    *)
(* number of items is min(pageSize, max(0, totalItems - offset)).            *)
SnapshotRead ==
    (last.op \in {"list", "search"} /\ last.status = 200) =>
        LET pg == last.body.pagination
            offset == (pg.page - 1) * pg.pageSize
        IN  Len(last.body.data) =
                IF pg.totalItems > offset THEN Min(pg.pageSize, pg.totalItems - offset) ELSE 0

(* the request ended in a 400 carrying field violations, before the handler *)
(* ran: no repository method was called, no statement sent, nothing stored   *)
Rejected ==
    /\ last'.status = 400
    /\ last'.err = "ZodError"
    /\ last'.issues # {}
    /\ last'.calls = <<>>
    /\ last'.queries = 0
    /\ rows' = rows
    /\ seq' = seq

(* what each schema asks of a raw request *)
GoodId(p) == p.id.k = "int" /\ p.id.n > 0
GoodText(v) == v \notin {Undef, Null, ""}
GoodNumber(raw) == raw.k = "undef" \/ (raw.k = "int" /\ raw.n >= 1)
GoodDate(raw) == raw.k \in {"undef", "date"}
GoodQuery(q) ==
    /\ GoodNumber(q.page)
    /\ GoodNumber(q.pageSize)
    /\ q.sortDirection \in {Undef, "asc", "desc"}
    /\ GoodDate(q.from)
    /\ GoodDate(q.to)
    /\ (q.from.k = "date" /\ q.to.k = "date") => q.from.n <= q.to.n

(* C16: on every route a request whose path parameters, query or body fail *)
(* their schema ends in a 400 carrying the field violations, and neither     *)
(* the handler nor any service operation runs for it.                        *)
SchemaViolationsRejected ==
    [][/\ last'.op \in {"get", "delete"} =>
             \A p \in [id : RawIds \cup BadRawIds] :
                 (~GoodId(p) /\ (HttpGetById(p) \/ HttpDelete(p))) =>
                     (Rejected /\ last'.issues = {"id"})
       /\ last'.op = "update" =>
             \A r \in RouteUpdates :
                 (/\ \/ ~GoodId(r[1])
                     \/ r[2].title # Undef /\ ~GoodText(r[2].title)
                     \/ r[2].content # Undef /\ ~GoodText(r[2].content)
                  /\ HttpUpdate(r[1], r[2])) => Rejected
       /\ last'.op = "create" =>
             \A b \in RouteBodies :
                 ((~GoodText(b.title) \/ ~GoodText(b.content)) /\ HttpCreate(b)) =>
                     (/\ Rejected
                      /\ ~GoodText(b.title) => "title" \in last'.issues
                      /\ ~GoodText(b.content) => "content" \in last'.issues)
       /\ last'.op \in {"list", "search"} =>
             \A q \in RouteQueries :
                 (~GoodQuery(q) /\ (HttpList(q) \/ HttpSearch(q))) => Rejected]_vars

SchemaViolationsRejectedWitness ==
    /\ last.op = "update"
    /\ last.status = 400
    /\ last.issues = {"id"}
    /\ rows # <<>>

EmptyTitleRejectedWitness ==
    /\ last.op = "create"
    /\ last.status = 400
    /\ last.issues = {"title"}
    /\ rows # <<>>

(* the items are in createdAt order in the direction dir *)
InOrder(data, dir) ==
    \A k \in 1..(Len(data) - 1) :
        IF dir = "asc" THEN data[k].createdAt <= data[k + 1].createdAt
        ELSE data[k].createdAt >= data[k + 1].createdAt

(* C17: sortDirection is read without regard to case and defaults to        *)
(* descending: 'ASC' is accepted and lists by createdAt ascending, 'desc'    *)
(* and an absent sortDirection list descending.                              *)
SortCaseInsensitive ==
    (last.op = "list" /\ GoodQuery([last.raw EXCEPT !.sortDirection = Undef])) =>
        /\ last.raw.sortDirection = "ASC" =>
              (last.status = 200 /\ InOrder(last.body.data, "asc"))
        /\ last.raw.sortDirection \in {"desc", Undef} =>
              (last.status = 200 /\ InOrder(last.body.data, "desc"))

(* C18: a list request with page below 1 is not rejected: it answers the    *)
(* first page, reports page = 1, and its offset is not negative.             *)
PageBelowOneCoerced ==
    (/\ last.op = "list"
     /\ last.raw.page.k = "int"
     /\ last.raw.page.n < 1
     /\ GoodQuery([last.raw EXCEPT !.page = RawUndef])) =>
        /\ last.status = 200
        /\ last.body.pagination.page = 1
        /\ (last.in.page - 1) * last.in.pageSize >= 0

(* C19: GET /articles/search with from or to missing ends in a 400 without  *)
(* calling listArticlesByDateRange; with both present, from <= to and the    *)
(* rest of the query valid it calls it once and answers 200 with its result. *)
SearchNeedsBothDates ==
    last.op = "search" =>
        LET q == last.raw
        IN  /\ (q.from.k = "undef" \/ q.to.k = "undef") =>
                  /\ last.status = 400
                  /\ last.calls = <<>>
                  /\ last.queries = 0
            /\ (GoodQuery(q) /\ q.from.k = "date" /\ q.to.k = "date") =>
                  /\ last.status = 200
                  /\ last.calls = <<"listArticlesByDateRange">>
                  /\ last.in.from = q.from.n
                  /\ last.in.to = q.to.n
                  /\ last.body \in listArticlesByDateRange(last.in)

SearchNeedsBothDatesWitness ==
    /\ last.op = "search"
    /\ last.status = 400
    /\ last.err = "HttpError"
    /\ last.calls = <<>>
    /\ rows # <<>>

SearchBothDatesWitness ==
    /\ last.op = "search"
    /\ last.status = 200
    /\ last.calls = <<"listArticlesByDateRange">>
    /\ Len(last.body.data) = 2

DeletedStaysGoneWitness ==
    /\ last.op = "update"
    /\ last.status = 404
    /\ last.id \in deleted
    /\ rows # <<>>

(* C21: over every sequence of create, generate, update and delete, every   *)
(* stored article has createdAt <= updatedAt, the two are equal right after  *)
(* its creation, and its createdAt never changes afterwards.                 *)
TimestampsOrdered ==
    [][\A i \in DOMAIN rows' :
          /\ rows'[i].created_at <= rows'[i].updated_at
          /\ i \notin DOMAIN rows => rows'[i].created_at = rows'[i].updated_at
          /\ i \in DOMAIN rows => rows'[i].created_at = rows[i].created_at]_vars

TimestampsOrderedWitness ==
    /\ last.op = "update"
    /\ last.status = 200
    /\ now > rows[last.id].created_at
    /\ rows[last.id].title = "B"
    /\ \E i \in DOMAIN rows : rows[i].title = "G" /\ rows[i].created_at = now

----------------------------------------------------------------------------
(* The partial-update builders on their own *)

(* ArticleRepository.updateArticle up to the statement it hands to the     *)
(* query runner: SET assignments, WHERE id = $idParamIndex, [...values, id] *)
updateArticleStatement(id, changes) ==
    LET st == buildUpdateStatement(changes)
    IN  IF Len(st.assignments) = 0
        THEN [issued |-> FALSE, assignments |-> st.assignments, values |-> st.values,
              idParamIndex |-> 0, params |-> <<>>]
        ELSE [issued |-> TRUE, assignments |-> st.assignments, values |-> st.values,
              idParamIndex |-> Len(st.assignments) + 1,
              params |-> Append(st.values, id)]

(* updateArticle of models/articles.ts: each value is pushed on params and *)
(* its assignment takes params.length as its placeholder; the id is pushed *)
(* last and WHERE takes params.length again                                *)
modelsUpdateArticle(articleId, input) ==
    LET p1 == IF input.title # Undef THEN <<input.title>> ELSE <<>>
        u1 == IF input.title # Undef THEN <<[col |-> "title", p |-> Len(p1)]>> ELSE <<>>
        p2 == IF input.content # Undef THEN Append(p1, input.content) ELSE p1
        u2 == IF input.content # Undef
              THEN Append(u1, [col |-> "content", p |-> Len(p2)]) ELSE u1
        p3 == IF input.photoUrl # Undef THEN Append(p2, input.photoUrl) ELSE p2
        u3 == IF input.photoUrl # Undef
              THEN Append(u2, [col |-> "photo_url", p |-> Len(p3)]) ELSE u2
        p4 == Append(p3, articleId)
    IN  IF Len(u3) = 0
        THEN [issued |-> FALSE, assignments |-> u3, values |-> p3,
              idParamIndex |-> 0, params |-> <<>>]
        ELSE [issued |-> TRUE, assignments |-> u3, values |-> p3,
              idParamIndex |-> Len(p4), params |-> p4]

BuildInputs ==
    [title : {Undef, "A", "B"}, content : {Undef, "C", "D"},
     photoUrl : {Undef, Null, "p", "q"}]

(* the repository builds the statement for one update *)
BuildStatement(id, changes) ==
    /\ last' = Outcome("build", 0, "none", {}, id, changes,
                       updateArticleStatement(id, changes), <<"updateArticle">>, 0)
    /\ UNCHANGED <<rows, seq, now, configured, made, deleted, inflight>>

(* the functional module builds the statement for one update *)
BuildModelsStatement(id, changes) ==
    /\ last' = Outcome("models", 0, "none", {}, id, changes,
                       modelsUpdateArticle(id, changes), <<"updateArticle">>, 0)
    /\ UNCHANGED <<rows, seq, now, configured, made, deleted, inflight>>

NextBuild ==
    \/ \E id \in 1..(MaxId + 1), changes \in BuildInputs : BuildStatement(id, changes)
    \/ \E id \in 1..(MaxId + 1), changes \in BuildInputs :
           BuildModelsStatement(id, changes)

SpecBuild == Init /\ [][NextBuild]_vars

Supplied(input) == {f \in {"title", "content", "photoUrl"} : input[f] # Undef}
ColumnOf(f) == IF f = "photoUrl" THEN "photo_url" ELSE f
FieldOf(col) == IF col = "photo_url" THEN "photoUrl" ELSE col
ColumnRank(col) == IF col = "title" THEN 1 ELSE IF col = "content" THEN 2 ELSE 3

(* C22: for every subset S of title, content and photoUrl given to either  *)
(* update builder, the SET clause has exactly one assignment for each      *)
(* column of S and none for the others, in the order title, content,       *)
(* photo_url with placeholders 1..|S|; the values are the supplied values  *)
(* in that order; and in the statement issued the id is bound to           *)
(* placeholder |S|+1, so every placeholder denotes the value of its column *)
BuilderPlaceholders ==
    last.op \in {"build", "models"} =>
        LET S == Supplied(last.in)
            n == Cardinality(S)
            st == last.body
        IN  /\ Len(st.assignments) = n
            /\ Len(st.values) = n
            /\ {st.assignments[k].col : k \in 1..n} = {ColumnOf(f) : f \in S}
            /\ \A k \in 1..n :
                  /\ st.assignments[k].p = k
                  /\ st.values[k] = last.in[FieldOf(st.assignments[k].col)]
                  /\ \A j \in 1..n :
                        j < k => ColumnRank(st.assignments[j].col)
                                   < ColumnRank(st.assignments[k].col)
            /\ st.issued <=> n > 0
            /\ st.issued =>
                  /\ st.idParamIndex = n + 1
                  /\ Len(st.params) = n + 1
                  /\ st.params[st.idParamIndex] = last.id
                  /\ \A k \in 1..n :
                        st.params[st.assignments[k].p]
                          = last.in[FieldOf(st.assignments[k].col)]

BuilderPlaceholdersWitness ==
    /\ last.op = "build"
    /\ last.in = [title |-> Undef, content |-> "D", photoUrl |-> "q"]
    /\ last.id = 2
    /\ last.body.issued
    /\ last.body.params = <<"D", "q", 2>>

----------------------------------------------------------------------------
(* Two requests in flight: each store operation is one statement, and the  *)
(* service waits for it before it answers. In SpecConc the variable        *)
(* inflight holds the two requests by slot.                                *)

Slots == {1, 2}

Idle ==
    [op |-> "none", id |-> 0, changes |-> NoBody, existed |-> FALSE,
     stage |-> "idle", rowCount |-> 0, status |-> 0]

(* deletedRows >= 0 instead of deletedRows > 0 *)
DeletedAnyOrNone(deletedRows) == deletedRows >= 0

(* return deletedRows > 0 *)
DeletedAny(deletedRows) == deletedRows > 0

InitConc ==
    /\ rows = <<>>
    /\ seq = 0
    /\ now = 0
    /\ configured = TRUE
    /\ last = NoRequest
    /\ made = <<>>
    /\ deleted = {}
    /\ inflight = [s \in Slots |-> Idle]

(* the service method is called: nothing has reached the store yet *)
BeginDelete(s, id) ==
    /\ inflight[s].stage \in {"idle", "done"}
    /\ inflight' = [inflight EXCEPT ![s] =
                      [Idle EXCEPT !.op = "delete", !.id = id,
                                   !.existed = id \in DOMAIN rows, !.stage = "sent"]]
    /\ UNCHANGED <<rows, seq, now, configured, last, made, deleted>>

BeginUpdate(s, id, changes) ==
    /\ inflight[s].stage \in {"idle", "done"}
    /\ inflight' = [inflight EXCEPT ![s] =
                      [Idle EXCEPT !.op = "update", !.id = id, !.changes = changes,
                                   !.existed = id \in DOMAIN rows, !.stage = "sent"]]
    /\ UNCHANGED <<rows, seq, now, configured, last, made, deleted>>

(* the store runs the one statement of the request *)
RunStatement(s) ==
    LET r == inflight[s]
        st == updateArticleStatement(r.id, r.changes)
    IN  /\ r.stage = "sent"
        /\ rows' = IF r.op = "delete" THEN DeleteRows(rows, <<r.id>>)
                   ELSE UpdateRows(rows, st.assignments, st.idParamIndex, st.params)
        /\ inflight' = [inflight EXCEPT ![s].stage = "returned",
                                        ![s].rowCount = Cardinality(MatchId(rows, r.id))]
        /\ made' = Forget(made, r.id)
        /\ deleted' = IF r.op = "delete" /\ r.id \in DOMAIN rows
                      THEN deleted \cup {r.id} ELSE deleted
        /\ UNCHANGED <<seq, now, configured, last>>

(* the await resumes: the service returns or throws ArticleNotFoundError  *)
Respond(s) ==
    LET r == inflight[s]
        ok == IF r.op = "delete" THEN DeletedAny(r.rowCount) ELSE r.rowCount # 0
        call == IF r.op = "delete" THEN "deleteArticle" ELSE "updateArticle"
        outcome ==
            IF ~ok THEN ArticleNotFoundError(r.op, r.id, r.id, Null, call)
            ELSE IF r.op = "delete"
            THEN Outcome("delete", 204, "none", {}, r.id, Null, Null, <<call>>, 1)
            ELSE Outcome("update", 200, "none", {}, r.id, Null, Null, <<call>>, 1)
    IN  /\ r.stage = "returned"
        /\ inflight' = [inflight EXCEPT ![s].stage = "done", ![s].status = outcome.status]
        /\ last' = outcome
        /\ UNCHANGED <<rows, seq, now, configured, made, deleted>>

NextConc ==
    \/ \E b \in ListedBodies : HttpCreate(b)
    \/ \E s \in Slots, id \in 1..MaxId : BeginDelete(s, id)
    \/ \E s \in Slots, id \in 1..MaxId :
           BeginUpdate(s, id, [NoBody EXCEPT !.title = "B"])
    \/ \E s \in Slots : RunStatement(s)
    \/ \E s \in Slots : Respond(s)

SpecConc == InitConc /\ [][NextConc]_vars

(* both requests were made while the row was stored, so neither statement *)
(* of a delete had run when the later one began                            *)
Concurrent(s, t, id) ==
    /\ s # t
    /\ inflight[s].id = id /\ inflight[t].id = id
    /\ inflight[s].existed /\ inflight[t].existed

(* C23: of two concurrent deleteArticle requests for one stored id, in    *)
(* every interleaving of their statements, exactly one succeeds with 204  *)
(* and the other raises ArticleNotFoundError (404); and with a concurrent *)
(* updateArticle and deleteArticle on one id, no row of that id is stored *)
(* once the delete has succeeded                                          *)
ConcurrentDeleteOnce ==
    \A s \in Slots, t \in Slots :
        /\ ( /\ Concurrent(s, t, inflight[s].id)
             /\ inflight[s].op = "delete" /\ inflight[t].op = "delete"
             /\ inflight[s].stage = "done" /\ inflight[t].stage = "done" )
           => {inflight[s].status, inflight[t].status} = {204, 404}
        /\ ( /\ Concurrent(s, t, inflight[s].id)
             /\ inflight[s].op = "delete" /\ inflight[t].op = "update"
             /\ inflight[s].stage \in {"returned", "done"}
             /\ inflight[s].rowCount > 0 )
           => /\ inflight[s].id \notin DOMAIN rows
              /\ inflight[s].stage = "done" => inflight[s].status = 204

ConcurrentDeleteOnceWitness ==
    /\ Concurrent(1, 2, 1)
    /\ inflight[1].op = "delete" /\ inflight[2].op = "delete"
    /\ inflight[1].stage = "done" /\ inflight[2].stage = "done"
    /\ inflight[1].status = 404 /\ inflight[2].status = 204

(* the update's statement ran after the concurrent delete had succeeded *)
UpdateAfterDeleteWitness ==
    /\ Concurrent(1, 2, 1)
    /\ inflight[1].op = "update" /\ inflight[2].op = "delete"
    /\ inflight[2].stage = "done" /\ inflight[2].status = 204
    /\ inflight[1].stage = "done" /\ inflight[1].status = 404
    /\ 1 \notin DOMAIN rows

----------------------------------------------------------------------------
(* The controller handlers under asyncHandler. In SpecHandlers the         *)
(* variable inflight holds, by slot, one invocation of a wrapped handler:  *)
(* how many responses it has sent and how often it has called next.        *)

Handlers == {"list", "getByDates", "getById", "create", "update", "delete", "generate"}

(* what the awaited service call can do: resolve, or reject with one of   *)
(* the service's errors or with any other error                            *)
Settlements == {"resolved", "ArticleNotFoundError", "InvalidDateRangeError", "Error"}

NoCall ==
    [handler |-> "none", stage |-> "idle", sent |-> 0, nexts |-> 0,
     status |-> 0, err |-> "none", rejected |-> FALSE]

(* res.status(...) of each handler *)
SuccessStatus(handler) ==
    IF handler \in {"create", "generate"} THEN 201
    ELSE IF handler = "delete" THEN 204 ELSE 200

(* the catch block of each handler: the error it hands to next *)
CatchBlock(handler, error) ==
    IF error = "ArticleNotFoundError" /\ handler \in {"getById", "update", "delete"}
    THEN [err |-> "HttpError", status |-> 404]
    ELSE IF error = "InvalidDateRangeError" /\ handler = "getByDates"
    THEN [err |-> "HttpError", status |-> 400]
    ELSE [err |-> error, status |-> 0]

(* fn(...).then(next, next): next is called whenever the handler settles *)
asyncHandlerThenNext(rejected, nexts) == nexts + 1

(* void fn(req, res, next).catch(next) *)
asyncHandler(rejected, nexts) == IF rejected THEN nexts + 1 ELSE nexts

InitHandlers ==
    /\ rows = <<>>
    /\ seq = 0
    /\ now = 0
    /\ configured = TRUE
    /\ last = NoRequest
    /\ made = <<>>
    /\ deleted = {}
    /\ inflight = [s \in Slots |-> NoCall]

(* wrappedHandler calls fn, which runs up to its await; getByDates calls  *)
(* next and returns when from or to is missing                             *)
CallHandler(s, handler, hasDates) ==
    /\ inflight[s].stage \in {"idle", "done"}
    /\ inflight' = [inflight EXCEPT ![s] =
          IF handler = "getByDates" /\ ~hasDates
          THEN [NoCall EXCEPT !.handler = handler, !.stage = "returned", !.nexts = 1,
                              !.err = "HttpError", !.status = 400]
          ELSE [NoCall EXCEPT !.handler = handler, !.stage = "awaiting"]]
    /\ UNCHANGED <<rows, seq, now, configured, last, made, deleted>>

(* the awaited service call settles: the try block sends the response, or *)
(* the catch block calls next                                              *)
Settle(s, settlement) ==
    LET r == inflight[s]
        thrown == CatchBlock(r.handler, settlement)
    IN  /\ r.stage = "awaiting"
        /\ inflight' = [inflight EXCEPT ![s] =
              IF settlement = "resolved"
              THEN [r EXCEPT !.stage = "returned", !.sent = r.sent + 1,
                             !.status = SuccessStatus(r.handler)]
              ELSE [r EXCEPT !.stage = "returned", !.nexts = r.nexts + 1,
                             !.err = thrown.err,
                             !.status = errorHandler(thrown.err, thrown.status)]]
        /\ UNCHANGED <<rows, seq, now, configured, last, made, deleted>>

(* the promise of fn settles and asyncHandler's catch sees it *)
Return(s) ==
    LET r == inflight[s]
    IN  /\ r.stage = "returned"
        /\ inflight' = [inflight EXCEPT ![s] =
              [r EXCEPT !.stage = "done", !.nexts = asyncHandler(r.rejected, r.nexts)]]
        /\ UNCHANGED <<rows, seq, now, configured, last, made, deleted>>

NextHandlers ==
    \/ \E s \in Slots, handler \in Handlers, hasDates \in BOOLEAN :
           CallHandler(s, handler, hasDates)
    \/ \E s \in Slots, settlement \in Settlements : Settle(s, settlement)
    \/ \E s \in Slots : Return(s)

SpecHandlers == InitHandlers /\ [][NextHandlers]_vars

(* C24: every invocation of a wrapped controller handler ends in exactly  *)
(* one outcome, whether its service call resolves or rejects: one         *)
(* response sent with 200, 201 or 204, or one call of next with an error; *)
(* never both, and never neither                                           *)
ExactlyOneOutcome ==
    \A s \in Slots :
        LET r == inflight[s]
        IN  /\ r.sent + r.nexts <= 1
            /\ r.stage = "done" =>
                  /\ r.sent + r.nexts = 1
                  /\ r.sent = 1 <=> (r.err = "none" /\ r.status \in {200, 201, 204})
                  /\ r.nexts = 1 <=> r.err # "none"

ExactlyOneOutcomeWitness ==
    /\ inflight[1].handler = "delete" /\ inflight[1].stage = "done"
    /\ inflight[1].sent = 1 /\ inflight[1].status = 204
    /\ inflight[2].handler = "update" /\ inflight[2].stage = "done"
    /\ inflight[2].nexts = 1 /\ inflight[2].status = 404

(* C25: in updateArticle a photoUrl of null is a supplied field: the      *)
(* update of a stored article succeeds even when null is all it carries,  *)
(* and stores and returns a null photoUrl; an absent photoUrl leaves the  *)
(* stored photoUrl as it was                                               *)
NullPhotoIsSupplied ==
    [][Completes("update") =>
          LET id == last'.id
              changes == last'.in
          IN  /\ ( /\ id \in DOMAIN rows
                   /\ updateArticleIssues(changes) = {}
                   /\ changes.photoUrl = Null )
                 => /\ last'.status = 200
                    /\ rows'[id].photo_url = Null
                    /\ last'.body.photoUrl = Null
              /\ (last'.status = 200 /\ changes.photoUrl = Undef)
                 => /\ rows'[id].photo_url = rows[id].photo_url
                    /\ last'.body.photoUrl = rows[id].photo_url]_vars

NullPhotoIsSuppliedWitness ==
    /\ last.op = "update"
    /\ last.status = 200
    /\ last.in = [NoBody EXCEPT !.photoUrl = Null]
    /\ rows[last.id].photo_url = Null
    /\ rows[last.id].title = "A"

(* an update without photoUrl has kept a stored photo *)
AbsentPhotoKeptWitness ==
    /\ last.op = "update"
    /\ last.status = 200
    /\ last.in.photoUrl = Undef
    /\ rows[last.id].photo_url = "p"

====
